---- MODULE Spec2Model ----
(***************************************************************************)
(* BharatPropChain frontend: the simulated payment gateway                 *)
(* (frontend/payment-gateway.js), the trading functions buyTokens and      *)
(* sellTokens and the wallet session functions (frontend/app.js).          *)
(*                                                                         *)
(* JavaScript runs one task at a time.  An action of this module is one    *)
(* task together with the microtasks it schedules: a promise settled by    *)
(* complete() or cancel() resumes the awaiting buyTokens/sellTokens in the *)
(* same action, up to its next await.  A network round trip (fetch and     *)
(* response.json()) is answered by one later action.                       *)
(***************************************************************************)
EXTENDS Integers, Sequences, FiniteSets, TLC

VARIABLES
    currentOrder,      \* payment-gateway.js:7
    resolveCallback,   \* payment-gateway.js:8
    rejectCallback,    \* payment-gateway.js:9
    modal,             \* the #payment-gateway-modal element and its shown view
    timers,            \* pending setTimeout callbacks of process(), oldest first
    promise,           \* the promise returned by each triggerCheckout call
    trade,             \* each buyTokens / sellTokens invocation
    accessToken,       \* app.js:6
    currentUser,       \* app.js:5
    peraWallet,        \* app.js:7
    localStorage,      \* window.localStorage, the three session keys
    connectBtn,        \* the #connectWalletBtn element
    page,              \* the page: SDK presence, DOMContentLoaded, reconnectSession
    flow,              \* each handleWalletConnection invocation
    conn,              \* each connectWallet invocation awaiting peraWallet.connect()
    disc               \* each disconnectWallet invocation

gatewayVars == <<currentOrder, resolveCallback, rejectCallback, modal, timers, promise>>
sessionVars == <<accessToken, currentUser, peraWallet, localStorage, connectBtn>>
walletVars == <<page, flow, conn, disc>>
vars == <<currentOrder, resolveCallback, rejectCallback, modal, timers, promise, trade,
          accessToken, currentUser, peraWallet, localStorage, connectBtn,
          page, flow, conn, disc>>

(***************************************************************************)
(* Bounds of the model.                                                    *)
(***************************************************************************)
MaxOps == 2        \* buyTokens / sellTokens invocations in one page life
MaxTimers == 2     \* setTimeout callbacks of process() pending at once
MaxRand == 2       \* distinct outcomes of Math.random().toString(36)
MaxFlows == 2      \* handleWalletConnection invocations in one page life
MaxDisc == 1       \* disconnectWallet invocations in one page life
MaxConn == 1       \* connectWallet invocations awaiting peraWallet.connect() at once

OpIds == 1..MaxOps
FlowIds == 1..MaxFlows
DiscIds == 1..MaxDisc
ConnIds == 1..MaxConn
Rand == 1..MaxRand

(***************************************************************************)
(* JavaScript values.  Strings and the primitives null and undefined are   *)
(* tuples, objects are records; null and undefined objects are records of  *)
(* their own.                                                              *)
(***************************************************************************)
Null == <<"#null">>
Undefined == <<"#undefined">>
NullObj == [null |-> TRUE]
UndefinedObj == [undefined |-> TRUE]
NoAlert == <<>>
NullCallback == 0

\* JavaScript truthiness of a primitive / of an object reference
Truthy(v) == v \notin {Null, Undefined, <<"#false">>, <<"">>}
TruthyObj(o) == o \notin {NullObj, UndefinedObj}

\* String(v): what string concatenation and localStorage.setItem make of a value
StringOf(v) ==
    IF v = Undefined THEN <<"undefined">>
    ELSE IF v = Null THEN <<"null">>
    ELSE v

\* String(b) of a boolean
BoolToString(b) == IF b THEN <<"true">> ELSE <<"false">>

\* the booleans true and false where a field may also be undefined
True == <<"#true">>
False == <<"#false">>

\* a || b on primitives
OrElse(a, b) == IF Truthy(a) THEN a ELSE b

(***************************************************************************)
(* The backend and the user, as far as the frontend sees them.             *)
(***************************************************************************)
PropertyIds == {<<"PROP1">>}
TokenAmounts == {10}
\* GET /api/properties/{id}: the quote; total_value is a multiple of
\* total_tokens, so the floating-point quotient of app.js:408 is the exact
\* integer quotient
Quotes == {[total_value |-> 50000000, total_tokens |-> 1000]}
NetworkError == <<"Failed to fetch">>
TypeErrorMessage == <<"Cannot read properties of undefined">>
PricingOutcomes ==
    {[tag |-> "json", property |-> q] : q \in Quotes}
        \cup {[tag |-> "json", property |-> UndefinedObj],
              [tag |-> "throw", message |-> NetworkError]}
\* a wider choice of arguments and quotes, for the properties of the amount
\* and of the settlement request: a second property, a second token amount
\* and a second quote (again with an exact quotient)
MorePropertyIds == PropertyIds \cup {<<"PROP2">>}
MoreTokenAmounts == TokenAmounts \cup {3}
MoreQuotes == Quotes \cup {[total_value |-> 1200000, total_tokens |-> 400]}
MorePricingOutcomes ==
    PricingOutcomes \cup {[tag |-> "json", property |-> q] : q \in MoreQuotes}
SettlementOutcomes ==
    {[tag |-> "json", success |-> <<"#true">>, error |-> Undefined],
     [tag |-> "json", success |-> <<"#false">>, error |-> <<"Insufficient tokens">>],
     [tag |-> "json", success |-> <<"#false">>, error |-> Undefined],
     [tag |-> "throw", message |-> NetworkError]}
\* the methods whose onclick handlers triggerCheckout renders for the mode
Methods(isSell) == IF isSell THEN {"UPI Payout", "Bank Transfer"} ELSE {"UPI", "Card"}

(***************************************************************************)
(* frontend/payment-gateway.js                                             *)
(***************************************************************************)
NoPromise == [state |-> "none", value |-> NullObj]
\* #payment-gateway-modal: whether createModal() has made it, its display, and
\* which of #pgContent, #pgProcessing, #pgSuccess are shown
NoModal == [exists |-> FALSE, display |-> "none", content |-> TRUE,
            processing |-> FALSE, success |-> FALSE]

\* the part of Math.random().toString(36).substring(7).toUpperCase() that varies
RandomSuffix == Rand

OrderRefPrefix(isSell) == IF isSell THEN "SELL_" ELSE "ORDER_"
TxnIdPrefix(isSell) == IF isSell THEN "PAYOUT_" ELSE "TXN_"

\* the promises of triggerCheckout that are neither resolved nor rejected
Pending == {p \in OpIds : promise[p].state = "pending"}

\* new Promise((resolve, reject) => { ... }) of triggerCheckout, for the call
\* whose promise is p; r is the outcome of Math.random()
triggerCheckout(p, options, r) ==
    LET isSell == options.mode = <<"sell">>
        orderRef == <<OrderRefPrefix(isSell), r>>
    IN  /\ currentOrder' = [amount |-> options.amount, name |-> options.name,
                            email |-> options.email, propertyId |-> options.propertyId,
                            mode |-> options.mode, orderRef |-> orderRef,
                            txnId |-> Undefined]
        /\ resolveCallback' = p
        /\ rejectCallback' = p
        /\ promise' = [promise EXCEPT ![p] = [state |-> "pending", value |-> NullObj]]
        /\ modal' = [exists |-> TRUE, display |-> "flex", content |-> TRUE,
                      processing |-> FALSE, success |-> FALSE]
        /\ UNCHANGED timers

\* process(method), called by the onclick handler of a rendered method; it
\* throws on currentOrder.mode when no order was ever opened
process(method) ==
    /\ currentOrder # NullObj
    /\ method \in Methods(currentOrder.mode = <<"sell">>)
    /\ Len(timers) < MaxTimers
    /\ modal' = [modal EXCEPT !.content = FALSE, !.processing = TRUE]
    /\ timers' = Append(timers, currentOrder.mode = <<"sell">>)
    /\ UNCHANGED <<currentOrder, resolveCallback, rejectCallback, promise, trade>>
    /\ UNCHANGED <<sessionVars, walletVars>>

\* the callback process() hands to setTimeout; it closes over isSell
processTimeout(r) ==
    /\ timers # <<>>
    /\ LET isSell == Head(timers)
           txnId == <<TxnIdPrefix(isSell), r>>
       IN  /\ modal' = [modal EXCEPT !.processing = FALSE, !.success = TRUE]
           /\ currentOrder' = [currentOrder EXCEPT !.txnId = txnId]
    /\ timers' = Tail(timers)
    /\ UNCHANGED <<resolveCallback, rejectCallback, promise, trade>>
    /\ UNCHANGED <<sessionVars, walletVars>>

(***************************************************************************)
(* frontend/app.js: trading                                                *)
(***************************************************************************)
\* an invocation of buyTokens / sellTokens: its arguments, its local
\* constant property, its position, what it has called and alerted, and the
\* accessToken its entry test of app.js:399 / 446 read
NoTrade ==
    [pc |-> "idle", kind |-> "none", propertyId |-> Undefined, tokenAmount |-> 0,
     alert |-> NoAlert, pricingCalls |-> 0, checkoutCalls |-> 0, settleCalls |-> 0,
     settleReq |-> NullObj, end |-> "none", entryBusy |-> FALSE,
     property |-> NullObj, entryToken |-> Null]

\* an operation that has passed its token check and whose checkout has not
\* been resolved or rejected yet
InFlight(o) == trade[o].pc \in {"pricing", "checkout"}

\* the request apiCall() hands to fetch: the bearer header is read from
\* accessToken at the moment of the call
apiCall(endpoint, method, body) ==
    [endpoint |-> endpoint, method |-> method, body |-> body,
     authorization |-> IF Truthy(accessToken) THEN <<"Bearer", accessToken>>
                       ELSE Undefined]

\* currentUser ? currentUser.name : 'Valued Investor'
PayerName == IF TruthyObj(currentUser) THEN currentUser.name ELSE <<"Valued Investor">>
\* currentUser ? currentUser.email : ''
PayerEmail == IF TruthyObj(currentUser) THEN currentUser.email ELSE <<"">>

\* TotalAmount without the multiplication by tokenAmount
TotalAmount_UnitPriceOnly(property, tokenAmount) ==
    property.total_value \div property.total_tokens

\* pricePerToken * tokenAmount of app.js:408-409 and 455-456
TotalAmount(property, tokenAmount) ==
    (property.total_value \div property.total_tokens) * tokenAmount

\* the catch block of buyTokens, run on trade record t for the thrown value
buyTokens_catch(t, error) ==
    IF error.success = False
    THEN [t EXCEPT !.pc = "done"]
    ELSE [t EXCEPT !.pc = "done",
                   !.alert = <<"Failed to buy tokens: ", StringOf(error.message)>>]

\* sellTokens_catch starting the operation over once, with a second pricing
\* fetch
sellTokens_catch_Retries(t, error) ==
    IF t.pricingCalls < 2
    THEN [t EXCEPT !.pc = "pricing", !.pricingCalls = @ + 1]
    ELSE [t EXCEPT !.pc = "done",
                   !.alert = <<"Failed to sell tokens: ", StringOf(error.message)>>]

\* the catch block of sellTokens
sellTokens_catch(t, error) ==
    [t EXCEPT !.pc = "done",
              !.alert = <<"Failed to sell tokens: ", StringOf(error.message)>>]

\* buyTokens_entry without the token test of app.js:399-402
buyTokens_entry_NoTokenTest(o, propertyId, tokenAmount) ==
    [trade[o] EXCEPT !.kind = "buy", !.propertyId = propertyId,
                     !.tokenAmount = tokenAmount,
                     !.entryBusy = \E q \in OpIds : InFlight(q),
                     !.entryToken = accessToken,
                     !.pc = "pricing", !.pricingCalls = @ + 1]

\* buyTokens from its entry to the pricing fetch
buyTokens_entry(o, propertyId, tokenAmount) ==
    LET t == [trade[o] EXCEPT !.kind = "buy", !.propertyId = propertyId,
                              !.tokenAmount = tokenAmount,
                              !.entryBusy = \E q \in OpIds : InFlight(q),
                              !.entryToken = accessToken]
    IN  IF ~Truthy(accessToken)
        THEN [t EXCEPT !.pc = "done", !.end = "unauthenticated",
                       !.alert = <<"Please connect your wallet first">>]
        ELSE [t EXCEPT !.pc = "pricing", !.pricingCalls = @ + 1]

\* sellTokens from its entry to the pricing fetch
sellTokens_entry(o, propertyId, tokenAmount) ==
    LET t == [trade[o] EXCEPT !.kind = "sell", !.propertyId = propertyId,
                              !.tokenAmount = tokenAmount,
                              !.entryBusy = \E q \in OpIds : InFlight(q),
                              !.entryToken = accessToken]
    IN  IF ~Truthy(accessToken)
        THEN [t EXCEPT !.pc = "done", !.end = "unauthenticated",
                       !.alert = <<"Please connect your wallet first">>]
        ELSE [t EXCEPT !.pc = "pricing", !.pricingCalls = @ + 1]

\* buyTokens(propertyId, tokenAmount) is called
buyTokens(o, propertyId, tokenAmount) ==
    /\ page.loaded
    /\ trade[o].pc = "idle"
    /\ \A q \in OpIds : q < o => trade[q].pc # "idle"
    /\ trade' = [trade EXCEPT ![o] = buyTokens_entry(o, propertyId, tokenAmount)]
    /\ UNCHANGED <<gatewayVars, sessionVars, walletVars>>

\* sellTokens(propertyId, tokenAmount) is called
sellTokens(o, propertyId, tokenAmount) ==
    /\ page.loaded
    /\ trade[o].pc = "idle"
    /\ \A q \in OpIds : q < o => trade[q].pc # "idle"
    /\ trade' = [trade EXCEPT ![o] = sellTokens_entry(o, propertyId, tokenAmount)]
    /\ UNCHANGED <<gatewayVars, sessionVars, walletVars>>

\* the options buyTokens passes to triggerCheckout (no mode)
buyTokens_options(o, property) ==
    [amount |-> TotalAmount(property, trade[o].tokenAmount), name |-> PayerName,
     email |-> PayerEmail, propertyId |-> trade[o].propertyId, mode |-> Undefined]

\* sellTokens_options without its mode
sellTokens_options_NoMode(o, property) ==
    [amount |-> TotalAmount(property, trade[o].tokenAmount), name |-> PayerName,
     email |-> PayerEmail, propertyId |-> trade[o].propertyId, mode |-> Undefined]

\* the options sellTokens passes to triggerCheckout
sellTokens_options(o, property) ==
    [amount |-> TotalAmount(property, trade[o].tokenAmount), name |-> PayerName,
     email |-> PayerEmail, propertyId |-> trade[o].propertyId, mode |-> <<"sell">>]

\* the pricing response of buyTokens arrives: step 1 and the call of step 2
buyTokens_pricing(o, out, r) ==
    /\ trade[o].pc = "pricing"
    /\ trade[o].kind = "buy"
    /\ IF out.tag = "throw"
       THEN /\ trade' = [trade EXCEPT ![o] =
                    [buyTokens_catch(@, [success |-> Undefined, message |-> out.message])
                        EXCEPT !.end = "pricing_failed"]]
            /\ UNCHANGED gatewayVars
       ELSE IF out.property = UndefinedObj
       THEN /\ trade' = [trade EXCEPT ![o] =
                    [buyTokens_catch(@, [success |-> Undefined, message |-> TypeErrorMessage])
                        EXCEPT !.end = "pricing_failed"]]
            /\ UNCHANGED gatewayVars
       ELSE /\ triggerCheckout(o, buyTokens_options(o, out.property), r)
            /\ trade' = [trade EXCEPT ![o].pc = "checkout", ![o].checkoutCalls = @ + 1,
                                      ![o].property = out.property]
    /\ UNCHANGED <<sessionVars, walletVars>>

\* the pricing response of sellTokens arrives
sellTokens_pricing(o, out, r) ==
    /\ trade[o].pc = "pricing"
    /\ trade[o].kind = "sell"
    /\ IF out.tag = "throw"
       THEN /\ trade' = [trade EXCEPT ![o] =
                    [sellTokens_catch(@, [success |-> Undefined, message |-> out.message])
                        EXCEPT !.end = "pricing_failed"]]
            /\ UNCHANGED gatewayVars
       ELSE IF out.property = UndefinedObj
       THEN /\ trade' = [trade EXCEPT ![o] =
                    [sellTokens_catch(@, [success |-> Undefined, message |-> TypeErrorMessage])
                        EXCEPT !.end = "pricing_failed"]]
            /\ UNCHANGED gatewayVars
       ELSE /\ triggerCheckout(o, sellTokens_options(o, out.property), r)
            /\ trade' = [trade EXCEPT ![o].pc = "checkout", ![o].checkoutCalls = @ + 1,
                                      ![o].property = out.property]
    /\ UNCHANGED <<sessionVars, walletVars>>

\* buyTokens_paid sending the order reference in the place of the payment
\* reference
buyTokens_paid_OrderAsPayment(t, paymentResult) ==
    IF ~Truthy(paymentResult.success)
    THEN [t EXCEPT !.pc = "done", !.end = "checkout_rejected",
                   !.alert = <<"Payment cancelled or failed.">>]
    ELSE [t EXCEPT !.pc = "settling", !.settleCalls = @ + 1,
                   !.settleReq = apiCall(<<"/api/trade/buy">>, "POST",
                        [property_id |-> t.propertyId, token_amount |-> t.tokenAmount,
                         payment_ref |-> paymentResult.order_id,
                         order_id |-> paymentResult.order_id])]

\* buyTokens after its await of triggerCheckout returned paymentResult: the
\* success test and the settlement call of step 3
buyTokens_paid(t, paymentResult) ==
    IF ~Truthy(paymentResult.success)
    THEN [t EXCEPT !.pc = "done", !.end = "checkout_rejected",
                   !.alert = <<"Payment cancelled or failed.">>]
    ELSE [t EXCEPT !.pc = "settling", !.settleCalls = @ + 1,
                   !.settleReq = apiCall(<<"/api/trade/buy">>, "POST",
                        [property_id |-> t.propertyId, token_amount |-> t.tokenAmount,
                         payment_ref |-> paymentResult.payment_ref,
                         order_id |-> paymentResult.order_id])]

\* sellTokens after its await of triggerCheckout returned payoutResult
sellTokens_paid(t, payoutResult) ==
    IF ~Truthy(payoutResult.success)
    THEN [t EXCEPT !.pc = "done", !.end = "checkout_rejected",
                   !.alert = <<"Payout cancelled or failed.">>]
    ELSE [t EXCEPT !.pc = "settling", !.settleCalls = @ + 1,
                   !.settleReq = apiCall(<<"/api/trade/sell">>, "POST",
                        [property_id |-> t.propertyId, token_amount |-> t.tokenAmount,
                         payment_ref |-> payoutResult.payment_ref,
                         order_id |-> payoutResult.order_id])]

\* buyTokens_rejected with the rejection swallowed and step 3 run all the same
buyTokens_rejected_FallThrough(t, error) ==
    buyTokens_paid(t, [success |-> True, payment_ref |-> Undefined,
                       order_id |-> Undefined])

\* buyTokens when its await of triggerCheckout throws the rejection value
buyTokens_rejected(t, error) ==
    [buyTokens_catch(t, error) EXCEPT !.end = "checkout_rejected"]

\* sellTokens_rejected with the rejection swallowed and step 3 run all the same
sellTokens_rejected_FallThrough(t, error) ==
    sellTokens_paid(t, [success |-> True, payment_ref |-> Undefined,
                        order_id |-> Undefined])

\* sellTokens when its await of triggerCheckout throws the rejection value
sellTokens_rejected(t, error) ==
    [sellTokens_catch(t, error) EXCEPT !.end = "checkout_rejected"]

\* resolve settling the promise anew and resuming its awaiter at every call
resolve_Resettles(p, value) ==
    /\ promise' = [promise EXCEPT ![p] = [state |-> "resolved", value |-> value]]
    /\ trade' = [trade EXCEPT ![p] = IF @.kind = "buy"
                                     THEN buyTokens_paid(@, value)
                                     ELSE sellTokens_paid(@, value)]

\* resolve(value) of the promise p: a settled promise ignores it; a pending one
\* is resolved and its awaiter resumes
resolve(p, value) ==
    IF promise[p].state = "pending"
    THEN /\ promise' = [promise EXCEPT ![p] = [state |-> "resolved", value |-> value]]
         /\ trade' = [trade EXCEPT ![p] = IF @.kind = "buy"
                                          THEN buyTokens_paid(@, value)
                                          ELSE sellTokens_paid(@, value)]
    ELSE UNCHANGED <<promise, trade>>

\* reject(value) of the promise p
reject(p, value) ==
    IF promise[p].state = "pending"
    THEN /\ promise' = [promise EXCEPT ![p] = [state |-> "rejected", value |-> value]]
         /\ trade' = [trade EXCEPT ![p] = IF @.kind = "buy"
                                          THEN buyTokens_rejected(@, value)
                                          ELSE sellTokens_rejected(@, value)]
    ELSE UNCHANGED <<promise, trade>>

\* PaymentGateway.complete(): throws on the missing modal before the first checkout
complete ==
    /\ modal.exists
    /\ modal' = [modal EXCEPT !.display = "none"]
    /\ IF resolveCallback # NullCallback
       THEN resolve(resolveCallback, [success |-> True,
                                      payment_ref |-> currentOrder.txnId,
                                      order_id |-> currentOrder.orderRef])
       ELSE UNCHANGED <<promise, trade>>
    /\ UNCHANGED <<currentOrder, resolveCallback, rejectCallback, timers>>
    /\ UNCHANGED <<sessionVars, walletVars>>

\* PaymentGateway.cancel()
cancel ==
    /\ modal.exists
    /\ modal' = [modal EXCEPT !.display = "none"]
    /\ IF rejectCallback # NullCallback
       THEN reject(rejectCallback, [success |-> False, error |-> <<"User cancelled">>,
                                    message |-> Undefined])
       ELSE UNCHANGED <<promise, trade>>
    /\ UNCHANGED <<currentOrder, resolveCallback, rejectCallback, timers>>
    /\ UNCHANGED <<sessionVars, walletVars>>

\* buyTokens_settled dropping the session when the settlement did not succeed
buyTokens_settled_ClearsToken(o, out) ==
    /\ trade[o].pc = "settling"
    /\ trade[o].kind = "buy"
    /\ trade' = [trade EXCEPT ![o] =
            IF out.tag = "throw"
            THEN [buyTokens_catch(@, [success |-> Undefined, message |-> out.message])
                      EXCEPT !.end = "settlement_threw"]
            ELSE IF Truthy(out.success)
            THEN [@ EXCEPT !.pc = "done", !.end = "settled",
                           !.alert = <<"Payment Confirmed & Tokens Purchased Successfully!">>]
            ELSE [@ EXCEPT !.pc = "done", !.end = "settlement_error",
                           !.alert = <<"Purchase failed after payment: ",
                                       OrElse(out.error, <<"Unknown error">>)>>]]
    /\ IF out.tag = "json" /\ Truthy(out.success)
       THEN UNCHANGED <<accessToken, currentUser, localStorage>>
       ELSE /\ accessToken' = Null
            /\ currentUser' = NullObj
            /\ localStorage' = [k \in DOMAIN localStorage |-> Null]
    /\ UNCHANGED <<gatewayVars, peraWallet, connectBtn, walletVars>>

\* the settlement response of buyTokens arrives
buyTokens_settled(o, out) ==
    /\ trade[o].pc = "settling"
    /\ trade[o].kind = "buy"
    /\ trade' = [trade EXCEPT ![o] =
            IF out.tag = "throw"
            THEN [buyTokens_catch(@, [success |-> Undefined, message |-> out.message])
                      EXCEPT !.end = "settlement_threw"]
            ELSE IF Truthy(out.success)
            THEN [@ EXCEPT !.pc = "done", !.end = "settled",
                           !.alert = <<"Payment Confirmed & Tokens Purchased Successfully!">>]
            ELSE [@ EXCEPT !.pc = "done", !.end = "settlement_error",
                           !.alert = <<"Purchase failed after payment: ",
                                       OrElse(out.error, <<"Unknown error">>)>>]]
    /\ UNCHANGED <<gatewayVars, sessionVars, walletVars>>

\* the settlement response of sellTokens arrives
sellTokens_settled(o, out) ==
    /\ trade[o].pc = "settling"
    /\ trade[o].kind = "sell"
    /\ trade' = [trade EXCEPT ![o] =
            IF out.tag = "throw"
            THEN [sellTokens_catch(@, [success |-> Undefined, message |-> out.message])
                      EXCEPT !.end = "settlement_threw"]
            ELSE IF Truthy(out.success)
            THEN [@ EXCEPT !.pc = "done", !.end = "settled",
                           !.alert = <<"Payout Successful! Tokens debited from your account.">>]
            ELSE [@ EXCEPT !.pc = "done", !.end = "settlement_error",
                           !.alert = <<"Sale failed: ",
                                       OrElse(out.error, <<"Unknown error">>)>>]]
    /\ UNCHANGED <<gatewayVars, sessionVars, walletVars>>

(***************************************************************************)
(* frontend/app.js: wallet session                                         *)
(***************************************************************************)
StorageKeys == {"accessToken", "walletAddress", "isDemoMode"}
\* localStorage.getItem of an absent key is null
EmptyStorage == [k \in StorageKeys |-> Null]

\* wallet addresses: the provider's account, one typed into the prompt, and
\* 'DEMO' + Math.random().toString(36).substring(7).toUpperCase()
ProviderAccount == <<"PERAACCOUNT">>
TypedAddress == <<"TYPEDADDRESS">>
WalletAddresses == {ProviderAccount, TypedAddress} \cup {<<"DEMO", r>> : r \in Rand}

\* the token the backend issues for a wallet address
TokenFor(walletAddress) == <<"jwt", walletAddress>>
\* the profile the backend keeps for a wallet address
ProfileFor(walletAddress) ==
    [wallet_address |-> walletAddress, name |-> <<"Registered User">>,
     email |-> <<"user@example.com">>]

\* POST /api/auth/register: created, already registered (400), server error,
\* or a failed request / unreadable body
RegisterOutcomes(walletAddress) ==
    {[tag |-> "json", status |-> 201, success |-> True,
      access_token |-> TokenFor(walletAddress)],
     [tag |-> "json", status |-> 400, success |-> False, access_token |-> Undefined],
     [tag |-> "json", status |-> 500, success |-> False, access_token |-> Undefined],
     [tag |-> "throw", status |-> 0, success |-> Undefined, access_token |-> Undefined]}

\* POST /api/auth/login: token and profile, an error body without them, or a
\* failed request / unreadable body
LoginOutcomes(walletAddress) ==
    {[tag |-> "json", access_token |-> TokenFor(walletAddress),
      user |-> ProfileFor(walletAddress)],
     [tag |-> "json", access_token |-> Undefined, user |-> UndefinedObj],
     [tag |-> "throw", access_token |-> Undefined, user |-> UndefinedObj]}

NoFlow ==
    [pc |-> "idle", walletAddress |-> Undefined, isDemoMode |-> FALSE,
     registerCalls |-> 0, loginCalls |-> 0, registerStatus |-> 0,
     loginToken |-> Undefined, alert |-> NoAlert]
\* an invocation of disconnectWallet: its position, how it ended, what it
\* alerted, and the handleWalletConnection invocations that were awaiting a
\* response when it cleared the session
NoDisc == [pc |-> "idle", end |-> "none", alert |-> NoAlert, inFlight |-> {}]
\* an invocation of connectWallet: its position, the message of the error
\* its catch block received (null when none was thrown), whether the
\* confirm() of app.js:61 was shown, and what it alerted
NoConn == [pc |-> "idle", error |-> Null, offered |-> FALSE, alert |-> NoAlert]

\* the lowest handleWalletConnection slot not used yet
FreeFlow(f) == flow[f].pc = "idle" /\ \A g \in FlowIds : g < f => flow[g].pc # "idle"

\* saveToken(token)
saveToken(store, token) == [store EXCEPT !["accessToken"] = StringOf(token)]

\* updateWalletUI(): the button shows the connected state when currentUser is set
updateWalletUI(btn, user) ==
    IF TruthyObj(user) THEN [btn EXCEPT !.connected = TRUE] ELSE btn

\* handleWalletConnection(accounts, isDemoMode) up to its register fetch
handleWalletConnection(f, walletAddress, isDemoMode) ==
    flow' = [flow EXCEPT ![f] = [@ EXCEPT !.pc = "register",
                                          !.walletAddress = walletAddress,
                                          !.isDemoMode = isDemoMode,
                                          !.registerCalls = @ + 1]]

\* LoginAfterRegister without the test of the 400 status
LoginAfterRegister_SuccessOnly(data) == Truthy(data.success)

\* app.js:103: whether the register response sends the flow to the login call
LoginAfterRegister(data) == Truthy(data.success) \/ data.status = 400

\* SavedEntries without the two setItem calls of app.js:125-126
SavedEntries_TokenOnly(f, token) == saveToken(localStorage, token)

\* app.js:124-126: the store after saveToken(accessToken) and the two setItem
\* calls of flow f
SavedEntries(f, token) ==
    [saveToken(localStorage, token) EXCEPT
        !["walletAddress"] = flow[f].walletAddress,
        !["isDemoMode"] = BoolToString(flow[f].isDemoMode)]

\* app.js:123-130: save to localStorage, update the UI, report success
flow_save(f, token, user) ==
    /\ accessToken' = token
    /\ currentUser' = user
    /\ localStorage' = SavedEntries(f, token)
    /\ connectBtn' = updateWalletUI(connectBtn, user)

\* the register response of handleWalletConnection arrives
flow_register(f, data) ==
    /\ flow[f].pc = "register"
    /\ IF data.tag = "throw"
       THEN /\ flow' = [flow EXCEPT ![f].pc = "failed",
                            ![f].alert = <<"Failed to complete wallet connection">>]
            /\ UNCHANGED <<accessToken, currentUser, localStorage, connectBtn>>
       ELSE IF LoginAfterRegister(data)
       THEN /\ flow' = [flow EXCEPT ![f].pc = "login", ![f].loginCalls = @ + 1,
                                    ![f].registerStatus = data.status]
            /\ UNCHANGED <<accessToken, currentUser, localStorage, connectBtn>>
       ELSE /\ flow_save(f, data.access_token,
                         [wallet_address |-> flow[f].walletAddress,
                          name |-> Undefined, email |-> Undefined])
            /\ flow' = [flow EXCEPT ![f].pc = "done",
                            ![f].registerStatus = data.status,
                            ![f].alert = <<"Wallet connected successfully!">>]
    /\ UNCHANGED <<peraWallet, page, conn, disc, trade, gatewayVars>>

\* flow_login dropping the session when the login request fails
flow_login_ClearsOnThrow(f, loginData) ==
    /\ flow[f].pc = "login"
    /\ IF loginData.tag = "throw"
       THEN /\ flow' = [flow EXCEPT ![f].pc = "failed",
                            ![f].alert = <<"Failed to complete wallet connection">>]
            /\ accessToken' = Null
            /\ currentUser' = NullObj
            /\ localStorage' = EmptyStorage
            /\ UNCHANGED connectBtn
       ELSE /\ flow_save(f, loginData.access_token, loginData.user)
            /\ flow' = [flow EXCEPT ![f].pc = "done",
                            ![f].loginToken = loginData.access_token,
                            ![f].alert = <<"Wallet connected successfully!">>]
    /\ UNCHANGED <<peraWallet, page, conn, disc, trade, gatewayVars>>

\* the login response of handleWalletConnection arrives
flow_login(f, loginData) ==
    /\ flow[f].pc = "login"
    /\ IF loginData.tag = "throw"
       THEN /\ flow' = [flow EXCEPT ![f].pc = "failed",
                            ![f].alert = <<"Failed to complete wallet connection">>]
            /\ UNCHANGED <<accessToken, currentUser, localStorage, connectBtn>>
       ELSE /\ flow_save(f, loginData.access_token, loginData.user)
            /\ flow' = [flow EXCEPT ![f].pc = "done",
                            ![f].loginToken = loginData.access_token,
                            ![f].alert = <<"Wallet connected successfully!">>]
    /\ UNCHANGED <<peraWallet, page, conn, disc, trade, gatewayVars>>

PeraWalletObj == [chainId |-> 416002]

\* the outcomes of peraWallet.reconnectSession()
ReconnectOutcomes ==
    {[tag |-> "accounts", accounts |-> <<>>],
     [tag |-> "accounts", accounts |-> <<ProviderAccount>>],
     [tag |-> "throw", accounts |-> <<>>]}

\* the outcomes of peraWallet.connect()
ConnectOutcomes ==
    {[tag |-> "accounts", message |-> Undefined],
     [tag |-> "throw", message |-> <<"Connection request rejected by user">>],
     [tag |-> "throw", message |-> <<"Network mismatch">>],
     [tag |-> "throw", message |-> Undefined]}
\* what the user leaves in the prompt of connectDemoWallet: cancelled, empty, typed
PromptOutcomes == {Null, <<"">>, TypedAddress}

\* DOMContentLoaded without the session restore of app.js:514-523
DOMContentLoaded_NoRestore ==
    /\ ~page.loaded
    /\ page' = [page EXCEPT !.loaded = TRUE,
                            !.reconnect = IF page.sdk THEN "pending" ELSE @]
    /\ peraWallet' = IF page.sdk THEN PeraWalletObj ELSE peraWallet
    /\ UNCHANGED <<accessToken, currentUser, connectBtn>>
    /\ UNCHANGED <<localStorage, flow, conn, disc, trade, gatewayVars>>

\* the DOMContentLoaded handler: initializePeraWallet() and the session restore
DOMContentLoaded ==
    /\ ~page.loaded
    /\ page' = [page EXCEPT !.loaded = TRUE,
                            !.reconnect = IF page.sdk THEN "pending" ELSE @]
    /\ peraWallet' = IF page.sdk THEN PeraWalletObj ELSE peraWallet
    /\ LET storedToken == localStorage["accessToken"]
           storedAddress == localStorage["walletAddress"]
           user == [wallet_address |-> storedAddress, name |-> Undefined,
                    email |-> Undefined]
       IN  IF Truthy(storedToken) /\ Truthy(storedAddress)
           THEN /\ accessToken' = storedToken
                /\ currentUser' = user
                /\ connectBtn' = updateWalletUI(connectBtn, user)
           ELSE UNCHANGED <<accessToken, currentUser, connectBtn>>
    /\ UNCHANGED <<localStorage, flow, conn, disc, trade, gatewayVars>>

\* the promise of peraWallet.reconnectSession() settles (app.js:19-25)
reconnectSession(f, out) ==
    /\ page.reconnect = "pending"
    /\ page' = [page EXCEPT !.reconnect = "done"]
    /\ IF out.tag = "accounts" /\ Len(out.accounts) > 0
       THEN FreeFlow(f) /\ handleWalletConnection(f, out.accounts[1], FALSE)
       ELSE UNCHANGED flow
    /\ UNCHANGED <<sessionVars, conn, disc, trade, gatewayVars>>

\* connectDemoWallet passing isDemoMode false
connectDemoWallet_NotDemo(f, typed, r) ==
    /\ FreeFlow(f)
    /\ handleWalletConnection(f, OrElse(typed, <<"DEMO", r>>), FALSE)

\* connectDemoWallet(): the prompt and the call of handleWalletConnection
connectDemoWallet(f, typed, r) ==
    /\ FreeFlow(f)
    /\ handleWalletConnection(f, OrElse(typed, <<"DEMO", r>>), TRUE)

\* connectWallet() when the Pera Wallet SDK is not loaded
connectWallet_noSdk(f, useDemoMode, typed, r) ==
    /\ page.loaded
    /\ ~page.sdk
    /\ IF useDemoMode THEN connectDemoWallet(f, typed, r) ELSE UNCHANGED flow
    /\ UNCHANGED <<sessionVars, page, conn, disc, trade, gatewayVars>>

\* connectWallet() when the SDK is loaded, up to its await of peraWallet.connect()
connectWallet_sdk(c) ==
    /\ page.loaded
    /\ page.sdk
    /\ conn[c].pc = "idle"
    /\ \A e \in ConnIds : e < c => conn[e].pc # "idle"
    /\ IF peraWallet = NullObj
       THEN /\ peraWallet' = PeraWalletObj
            /\ page' = [page EXCEPT !.reconnect = "pending"]
       ELSE UNCHANGED <<peraWallet, page>>
    /\ conn' = [conn EXCEPT ![c] = [NoConn EXCEPT !.pc = "awaitConnect"]]
    /\ UNCHANGED <<accessToken, currentUser, localStorage, connectBtn>>
    /\ UNCHANGED <<flow, disc, trade, gatewayVars>>

\* RejectedMessages when no message counts as a rejection
RejectedMessages_None == {}

\* error messages of peraWallet.connect() that contain 'rejected'
RejectedMessages == {<<"Connection request rejected by user">>}

\* peraWallet.connect() settles: the rest of connectWallet() and its catch
connectWallet_connected(c, f, out, useDemoMode, typed, r) ==
    /\ conn[c].pc = "awaitConnect"
    /\ IF out.tag = "accounts"
       THEN /\ FreeFlow(f)
            /\ handleWalletConnection(f, ProviderAccount, FALSE)
            /\ conn' = [conn EXCEPT ![c].pc = "idle"]
       ELSE IF Truthy(out.message) /\ out.message \in RejectedMessages
       THEN /\ IF useDemoMode THEN connectDemoWallet(f, typed, r) ELSE UNCHANGED flow
            /\ conn' = [conn EXCEPT ![c].pc = "idle", ![c].error = out.message,
                                    ![c].offered = TRUE]
       ELSE /\ conn' = [conn EXCEPT ![c].pc = "idle", ![c].error = out.message,
                            ![c].alert = <<"Failed to connect wallet: ",
                                          StringOf(out.message)>>]
            /\ UNCHANGED flow
    /\ UNCHANGED <<sessionVars, page, disc, trade, gatewayVars>>

\* the handleWalletConnection invocations that await their register or login
\* response
AwaitingFlows == {f \in FlowIds : flow[f].pc \in {"register", "login"}}

\* app.js:144-156: clearToken(), the two removeItem calls and the button reset
disconnect_clear ==
    /\ localStorage' = EmptyStorage
    /\ accessToken' = Null
    /\ currentUser' = NullObj
    /\ connectBtn' = [connectBtn EXCEPT !.connected = FALSE]

\* disconnectWallet() up to its await of peraWallet.disconnect(), or to its
\* end when no provider object exists
disconnectWallet(d) ==
    /\ page.loaded
    /\ disc[d].pc = "idle"
    /\ \A e \in DiscIds : e < d => disc[e].pc # "idle"
    /\ IF peraWallet # NullObj
       THEN /\ disc' = [disc EXCEPT ![d].pc = "awaitProvider"]
            /\ UNCHANGED <<accessToken, currentUser, localStorage, connectBtn>>
       ELSE /\ disconnect_clear
            /\ disc' = [disc EXCEPT ![d] = [pc |-> "done", end |-> "cleared",
                                            alert |-> <<"Wallet disconnected">>,
                                            inFlight |-> AwaitingFlows]]
    /\ UNCHANGED <<peraWallet, page, flow, conn, trade, gatewayVars>>

\* peraWallet.disconnect() settles: the rest of disconnectWallet() or its catch
disconnectWallet_provider(d, ok) ==
    /\ disc[d].pc = "awaitProvider"
    /\ IF ok
       THEN /\ disconnect_clear
            /\ disc' = [disc EXCEPT ![d] = [pc |-> "done", end |-> "cleared",
                                            alert |-> <<"Wallet disconnected">>,
                                            inFlight |-> AwaitingFlows]]
       ELSE /\ disc' = [disc EXCEPT ![d] = [pc |-> "done", end |-> "provider_error",
                                            alert |-> NoAlert, inFlight |-> {}]]
            /\ UNCHANGED <<accessToken, currentUser, localStorage, connectBtn>>
    /\ UNCHANGED <<peraWallet, page, flow, conn, trade, gatewayVars>>

(***************************************************************************)
(* The end of a page life.  The page may be closed or reloaded between two *)
(* tasks, and the browser may die inside a task, between two of the        *)
(* localStorage calls of app.js:124-126 or of app.js:144-146.  localStorage *)
(* outlives the page; the script starts again with its initial values.     *)
(***************************************************************************)
\* the keys in the order handleWalletConnection writes them
SaveOrder == <<"accessToken", "walletAddress", "isDemoMode">>
\* the keys in the order disconnectWallet removes them
RemoveOrder == <<"accessToken", "walletAddress", "isDemoMode">>

\* the store when only the first n of the writes that lead to saved were made
WriteFirst(store, saved, n) ==
    [k \in StorageKeys |->
        IF \E i \in 1..n : SaveOrder[i] = k THEN saved[k] ELSE store[k]]

\* the store when only the first n of the removals were made
RemoveFirst(store, n) ==
    [k \in StorageKeys |->
        IF \E i \in 1..n : RemoveOrder[i] = k THEN Null ELSE store[k]]

\* the page life ends and leaves store behind; the next one starts as at
\* script load (app.js:5-7, payment-gateway.js:7-9)
PageLifeEnds(store) ==
    /\ localStorage' = store
    /\ page' = [page EXCEPT !.loaded = FALSE, !.reconnect = "none"]
    /\ accessToken' = Null
    /\ currentUser' = NullObj
    /\ peraWallet' = NullObj
    /\ connectBtn' = [connected |-> FALSE]
    /\ flow' = [f \in FlowIds |-> NoFlow]
    /\ conn' = [c \in ConnIds |-> NoConn]
    /\ disc' = [d \in DiscIds |-> NoDisc]
    /\ trade' = [o \in OpIds |-> NoTrade]
    /\ currentOrder' = NullObj
    /\ resolveCallback' = NullCallback
    /\ rejectCallback' = NullCallback
    /\ modal' = NoModal
    /\ timers' = <<>>
    /\ promise' = [p \in OpIds |-> NoPromise]

\* the page is closed or reloaded between two tasks
reload ==
    /\ page.loaded
    /\ PageLifeEnds(localStorage)

\* the browser dies in the task of the register response, after n of the
\* three writes of app.js:124-126
flow_register_crash(f, data, n) ==
    /\ flow[f].pc = "register"
    /\ data.tag = "json"
    /\ ~LoginAfterRegister(data)
    /\ n \in 1..(Len(SaveOrder) - 1)
    /\ PageLifeEnds(WriteFirst(localStorage, SavedEntries(f, data.access_token), n))

\* the browser dies in the task of the login response, after n of the three
\* writes of app.js:124-126
flow_login_crash(f, loginData, n) ==
    /\ flow[f].pc = "login"
    /\ loginData.tag = "json"
    /\ n \in 1..(Len(SaveOrder) - 1)
    /\ PageLifeEnds(WriteFirst(localStorage, SavedEntries(f, loginData.access_token), n))

\* the browser dies in disconnectWallet() without a provider object, after n
\* of the three removals of app.js:144-146
disconnectWallet_crash(d, n) ==
    /\ page.loaded
    /\ disc[d].pc = "idle"
    /\ \A e \in DiscIds : e < d => disc[e].pc # "idle"
    /\ peraWallet = NullObj
    /\ n \in 1..(Len(RemoveOrder) - 1)
    /\ PageLifeEnds(RemoveFirst(localStorage, n))

(***************************************************************************)
(* Specifications.  A page life starts before DOMContentLoaded, with the   *)
(* localStorage an earlier page life left: nothing, or the three entries   *)
(* of a demo or of a provider session.                                     *)
(***************************************************************************)
StoredSession(walletAddress, isDemoMode) ==
    [k \in StorageKeys |->
        IF k = "accessToken" THEN TokenFor(walletAddress)
        ELSE IF k = "walletAddress" THEN walletAddress
        ELSE BoolToString(isDemoMode)]

StoredSessions ==
    {EmptyStorage, StoredSession(TypedAddress, TRUE), StoredSession(ProviderAccount, FALSE)}

Init ==
    /\ currentOrder = NullObj
    /\ resolveCallback = NullCallback
    /\ rejectCallback = NullCallback
    /\ modal = NoModal
    /\ timers = <<>>
    /\ promise = [p \in OpIds |-> NoPromise]
    /\ trade = [o \in OpIds |-> NoTrade]
    /\ accessToken = Null
    /\ currentUser = NullObj
    /\ peraWallet = NullObj
    /\ localStorage \in StoredSessions
    /\ connectBtn = [connected |-> FALSE]
    /\ page \in {[sdk |-> b, loaded |-> FALSE, reconnect |-> "none"] : b \in BOOLEAN}
    /\ flow = [f \in FlowIds |-> NoFlow]
    /\ conn = [c \in ConnIds |-> NoConn]
    /\ disc = [d \in DiscIds |-> NoDisc]

\* a page without the wallet SDK, which a demo session or none was left to
InitTrade ==
    /\ Init
    /\ ~page.sdk
    /\ localStorage \in {EmptyStorage, StoredSession(TypedAddress, TRUE)}

\* the payment gateway and the trading functions, on a session that is
\* restored at page load and may be disconnected
NextTrade ==
    \/ DOMContentLoaded
    \/ \E d \in DiscIds : disconnectWallet(d)
    \/ \E o \in OpIds, id \in PropertyIds, n \in TokenAmounts : buyTokens(o, id, n)
    \/ \E o \in OpIds, id \in PropertyIds, n \in TokenAmounts : sellTokens(o, id, n)
    \/ \E o \in OpIds, out \in PricingOutcomes, r \in RandomSuffix : buyTokens_pricing(o, out, r)
    \/ \E o \in OpIds, out \in PricingOutcomes, r \in RandomSuffix : sellTokens_pricing(o, out, r)
    \/ \E method \in Methods(TRUE) \cup Methods(FALSE) : process(method)
    \/ \E r \in RandomSuffix : processTimeout(r)
    \/ complete
    \/ cancel
    \/ \E o \in OpIds, out \in SettlementOutcomes : buyTokens_settled(o, out)
    \/ \E o \in OpIds, out \in SettlementOutcomes : sellTokens_settled(o, out)

\* the wallet session functions
NextSession ==
    \/ DOMContentLoaded
    \/ \E f \in FlowIds, out \in ReconnectOutcomes : reconnectSession(f, out)
    \/ \E f \in FlowIds, useDemoMode \in BOOLEAN, typed \in PromptOutcomes, r \in RandomSuffix :
           connectWallet_noSdk(f, useDemoMode, typed, r)
    \/ \E c \in ConnIds : connectWallet_sdk(c)
    \/ \E c \in ConnIds, f \in FlowIds, out \in ConnectOutcomes, useDemoMode \in BOOLEAN,
          typed \in PromptOutcomes, r \in RandomSuffix :
           connectWallet_connected(c, f, out, useDemoMode, typed, r)
    \/ \E f \in FlowIds : \E data \in RegisterOutcomes(flow[f].walletAddress) :
           flow_register(f, data)
    \/ \E f \in FlowIds : \E loginData \in LoginOutcomes(flow[f].walletAddress) :
           flow_login(f, loginData)
    \/ \E d \in DiscIds : disconnectWallet(d)
    \/ \E d \in DiscIds, ok \in BOOLEAN : disconnectWallet_provider(d, ok)

\* the trading functions up to their settlement call, and the gateway, on a
\* restored session that stays, with the wider choice of arguments and quotes
InitOrder ==
    /\ Init
    /\ ~page.sdk
    /\ localStorage = StoredSession(TypedAddress, TRUE)

NextOrder ==
    \/ DOMContentLoaded
    \/ \E o \in OpIds, id \in MorePropertyIds, n \in MoreTokenAmounts : buyTokens(o, id, n)
    \/ \E o \in OpIds, id \in MorePropertyIds, n \in MoreTokenAmounts : sellTokens(o, id, n)
    \/ \E o \in OpIds, out \in MorePricingOutcomes, r \in RandomSuffix :
           buyTokens_pricing(o, out, r)
    \/ \E o \in OpIds, out \in MorePricingOutcomes, r \in RandomSuffix :
           sellTokens_pricing(o, out, r)
    \/ \E method \in Methods(TRUE) \cup Methods(FALSE) : process(method)
    \/ \E r \in RandomSuffix : processTimeout(r)
    \/ complete
    \/ cancel

\* the session of a page without the wallet SDK over several page lives,
\* each of which may end between two tasks or inside a save or a clear
InitStorage ==
    /\ Init
    /\ ~page.sdk
    /\ localStorage = EmptyStorage

NextStorage ==
    \/ DOMContentLoaded
    \/ \E f \in FlowIds, useDemoMode \in BOOLEAN, typed \in PromptOutcomes, r \in RandomSuffix :
           connectWallet_noSdk(f, useDemoMode, typed, r)
    \/ \E f \in FlowIds : \E data \in RegisterOutcomes(flow[f].walletAddress) :
           flow_register(f, data)
    \/ \E f \in FlowIds : \E loginData \in LoginOutcomes(flow[f].walletAddress) :
           flow_login(f, loginData)
    \/ \E d \in DiscIds : disconnectWallet(d)
    \/ reload
    \/ \E f \in FlowIds, n \in 1..Len(SaveOrder) :
           \E data \in RegisterOutcomes(flow[f].walletAddress) :
               flow_register_crash(f, data, n)
    \/ \E f \in FlowIds, n \in 1..Len(SaveOrder) :
           \E loginData \in LoginOutcomes(flow[f].walletAddress) :
               flow_login_crash(f, loginData, n)
    \/ \E d \in DiscIds, n \in 1..Len(RemoveOrder) : disconnectWallet_crash(d, n)

\* the first invocation slot of buyTokens / sellTokens
OneOp == {o \in OpIds : \A q \in OpIds : o <= q}

\* a page without the wallet SDK on which the user connects, disconnects and
\* makes one trade: the session functions and the trading functions
\* together, with every outcome of every request; the gateway without its
\* method selection
InitApp ==
    /\ Init
    /\ ~page.sdk
    /\ localStorage = StoredSession(TypedAddress, TRUE)

NextApp ==
    \/ DOMContentLoaded
    \/ \E f \in FlowIds, useDemoMode \in BOOLEAN, typed \in PromptOutcomes, r \in RandomSuffix :
           connectWallet_noSdk(f, useDemoMode, typed, r)
    \/ \E f \in FlowIds : \E data \in RegisterOutcomes(flow[f].walletAddress) :
           flow_register(f, data)
    \/ \E f \in FlowIds : \E loginData \in LoginOutcomes(flow[f].walletAddress) :
           flow_login(f, loginData)
    \/ \E d \in DiscIds : disconnectWallet(d)
    \/ \E o \in OneOp, id \in PropertyIds, n \in TokenAmounts : buyTokens(o, id, n)
    \/ \E o \in OneOp, id \in PropertyIds, n \in TokenAmounts : sellTokens(o, id, n)
    \/ \E o \in OneOp, out \in PricingOutcomes, r \in RandomSuffix : buyTokens_pricing(o, out, r)
    \/ \E o \in OneOp, out \in PricingOutcomes, r \in RandomSuffix : sellTokens_pricing(o, out, r)
    \/ complete
    \/ cancel
    \/ \E o \in OneOp, out \in SettlementOutcomes : buyTokens_settled(o, out)
    \/ \E o \in OneOp, out \in SettlementOutcomes : sellTokens_settled(o, out)

Next == NextTrade \/ NextSession \/ NextOrder \/ NextStorage \/ NextApp

SpecTrade == InitTrade /\ [][NextTrade]_vars
SpecSession == Init /\ [][NextSession]_vars
SpecOrder == InitOrder /\ [][NextOrder]_vars
SpecStorage == InitStorage /\ [][NextStorage]_vars
SpecApp == InitApp /\ [][NextApp]_vars
Spec == Init /\ [][Next]_vars

(***************************************************************************)
(* Claims about the payment gateway and the trading functions              *)
(***************************************************************************)
\* the step in which operation o calls triggerCheckout
CallsCheckout(o) == trade[o].checkoutCalls = 0 /\ trade'[o].checkoutCalls = 1
\* a step in which complete() or cancel() closes the shown modal
ClosesModal == modal.display = "flex" /\ modal'.display = "none"

\* C1: a triggerCheckout call made while an order is open (some promise of an
\* earlier call is neither resolved nor rejected) is rejected at once and
\* opens no new order: the order slot and the callback pair stay as they were.
C1_ConflictRejected ==
    [][\A o \in OpIds :
          (Pending # {} /\ CallsCheckout(o))
              => /\ promise'[o].state = "rejected"
                 /\ currentOrder' = currentOrder]_vars

\* C2: a triggerCheckout call made while an order is open leaves that order's
\* amount, mode, propertyId and orderRef and the callback pair bound to it
\* unchanged, so that a later complete() or cancel() settles every promise
\* that was pending.
C2_OriginalOrderUnaffected ==
    [][/\ \A o \in OpIds :
             (Pending # {} /\ CallsCheckout(o))
                 => /\ currentOrder'.amount = currentOrder.amount
                    /\ currentOrder'.mode = currentOrder.mode
                    /\ currentOrder'.propertyId = currentOrder.propertyId
                    /\ currentOrder'.orderRef = currentOrder.orderRef
                    /\ resolveCallback' = resolveCallback
                    /\ rejectCallback' = rejectCallback
       /\ ClosesModal => \A p \in Pending : promise'[p].state # "pending"]_vars

\* C3: at most one triggerCheckout promise is neither resolved nor rejected,
\* and it is the one the callback pair is bound to.
C3_SingleOpenOrder ==
    /\ Cardinality(Pending) <= 1
    /\ \A p \in Pending : resolveCallback = p /\ rejectCallback = p

\* C4: a buy or sell invoked while another one is in flight is rejected at
\* entry: it never calls the settlement endpoint.
C4_SecondTradeNeverSettles ==
    \A o \in OpIds : trade[o].entryBusy => trade[o].settleCalls = 0

\* C5: the report of a trade whose settlement failed after an approved
\* checkout (business error or failed call) differs from the report of a
\* trade of the same direction whose pricing fetch or checkout failed.
C5_SettlementFailureDistinct ==
    \A o1, o2 \in OpIds :
        (/\ trade[o1].kind = trade[o2].kind
         /\ trade[o1].end \in {"settlement_error", "settlement_threw"}
         /\ trade[o2].end \in {"pricing_failed", "checkout_rejected"})
            => trade[o1].alert # trade[o2].alert

\* C6: an operation whose checkout promise was rejected has made no call to
\* its settlement endpoint.
C6_NoSettlementAfterRejection ==
    \A o \in OpIds :
        promise[o].state = "rejected"
            => trade[o].settleCalls = 0 /\ trade[o].settleReq = NullObj

\* C6 witness: a buy and a sell have both ended on a rejected checkout
C6_Witness ==
    \E o1, o2 \in OpIds :
        /\ trade[o1].kind = "buy" /\ trade[o2].kind = "sell"
        /\ \A o \in {o1, o2} : promise[o].state = "rejected" /\ trade[o].pc = "done"

\* C7: buy and sell invoked without a token end at once with the
\* authorization alert, have issued no pricing fetch, no checkout and no
\* settlement call, and leave the payment gateway as it was.
C7_UnauthenticatedNoCalls ==
    /\ [][\A o \in OpIds :
             (trade[o].pc = "idle" /\ trade'[o].pc # "idle" /\ ~Truthy(accessToken))
                 => /\ trade'[o].pc = "done"
                    /\ trade'[o].alert = <<"Please connect your wallet first">>
                    /\ UNCHANGED gatewayVars]_vars
    /\ [](\A o \in OpIds :
             trade[o].end = "unauthenticated"
                 => /\ trade[o].pricingCalls = 0
                    /\ trade[o].checkoutCalls = 0
                    /\ trade[o].settleCalls = 0
                    /\ promise[o].state = "none")

\* C7 witness: a trade was refused for want of a token while the order of an
\* earlier trade was open in the gateway
C7_Witness ==
    \E o1, o2 \in OpIds :
        /\ promise[o1].state = "pending"
        /\ trade[o2].end = "unauthenticated"

(***************************************************************************)
(* Claims about the wallet session                                         *)
(***************************************************************************)
\* the in-memory session and the three persisted entries are all absent
SessionCleared ==
    /\ accessToken = Null
    /\ currentUser = NullObj
    /\ localStorage = EmptyStorage

\* C8: a disconnectWallet() that called peraWallet.disconnect() ends with the
\* token, the wallet identifier and the demo flag removed, also when that
\* call failed.
C8_ClearsDespiteProviderFailure ==
    [][\A d \in DiscIds :
          (disc[d].pc = "awaitProvider" /\ disc'[d].pc = "done")
              => SessionCleared']_vars

\* C9: when disconnectWallet() ends, with or without a provider object, the
\* three persisted entries, the in-memory token and the user are all absent.
C9_DisconnectClearsAll ==
    [][\A d \in DiscIds :
          (disc[d].pc # "done" /\ disc'[d].pc = "done")
              => /\ accessToken' = Null
                 /\ currentUser' = NullObj
                 /\ \A k \in StorageKeys : localStorage'[k] = Null]_vars

\* C10 as claimed: a handleWalletConnection whose register response had
\* status 400 ends with accessToken set, to the token of the login.
C10_TokenNeverUnset ==
    [][\A f \in FlowIds :
          (flow[f].pc = "login" /\ flow[f].registerStatus = 400
                /\ flow'[f].pc # "login")
              => /\ Truthy(accessToken')
                 /\ accessToken' = TokenFor(flow[f].walletAddress)]_vars

\* C10 as amended: a register response with status 400 sends the flow to
\* exactly one login call, and when the login response arrives accessToken
\* and the persisted token become the access_token that response carried.
C10_FallsBackToLogin ==
    [][\A f \in FlowIds :
          /\ (flow[f].pc = "register" /\ flow'[f].pc # "register"
                  /\ flow'[f].registerStatus = 400)
                => flow'[f].pc = "login" /\ flow'[f].loginCalls = 1
          /\ (flow[f].pc = "login" /\ flow[f].registerStatus = 400
                  /\ flow'[f].pc = "done")
                => /\ flow'[f].loginCalls = 1
                   /\ accessToken' = flow'[f].loginToken
                   /\ localStorage'["accessToken"] = StringOf(flow'[f].loginToken)]_vars

\* C10 witness: a flow whose registration was answered with 400 has ended
\* holding the token of its login
C10_Witness ==
    \E f \in FlowIds :
        /\ flow[f].pc = "done"
        /\ flow[f].registerStatus = 400
        /\ flow[f].loginCalls = 1
        /\ accessToken = TokenFor(flow[f].walletAddress)
        /\ flow[f].loginToken = accessToken

\* C11: a register response that reports success (status 201, not the
\* duplicate signal) ends the flow with its access_token adopted as
\* accessToken and no login call made; a login call is made only after a
\* register response with status 400.
C11_RegistrationTokenAdopted ==
    [][\A f \in FlowIds :
          /\ (flow[f].pc = "register" /\ flow'[f].registerStatus = 201)
                => /\ flow'[f].pc = "done"
                   /\ flow'[f].loginCalls = 0
                   /\ accessToken' = TokenFor(flow[f].walletAddress)
          /\ (flow[f].pc = "register" /\ flow'[f].pc = "login")
                => flow'[f].registerStatus = 400]_vars

(***************************************************************************)
(* Claims about the states of the payment gateway                          *)
(***************************************************************************)
\* the promises complete() has resolved, each with the value it was given
Approved == {p \in OpIds : promise[p].state = "resolved"}

\* C12: every resolved checkout promise carries a generated txnId as its
\* payment_ref: complete() called before the timer of process() has written
\* a txnId does not resolve the promise with an absent one.
C12_ApprovedCarriesTxnId ==
    \A p \in Approved : promise[p].value.payment_ref # Undefined

\* C13: for every resolved checkout promise that carries a txnId, the prefix
\* of its order_id and the prefix of its payment_ref are those of the mode
\* of the operation that opened the order (buy: ORDER_ and TXN_, sell: SELL_
\* and PAYOUT_), and the two prefixes differ.
C13_PrefixesMatchMode ==
    \A p \in Approved :
        LET v == promise[p].value
            isSell == trade[p].kind = "sell"
        IN  v.payment_ref # Undefined
                => /\ v.order_id[1] = OrderRefPrefix(isSell)
                   /\ v.payment_ref[1] = TxnIdPrefix(isSell)
                   /\ v.payment_ref[1] # v.order_id[1]

\* the order slot and the callback pair are as before the first checkout
GatewayIdle ==
    /\ currentOrder = NullObj
    /\ resolveCallback = NullCallback
    /\ rejectCallback = NullCallback

\* the step in which promise p is resolved / rejected
Resolves(p) == promise[p].state = "pending" /\ promise'[p].state = "resolved"
Rejects(p) == promise[p].state = "pending" /\ promise'[p].state = "rejected"

\* C14: complete() on an order whose txnId has been generated resolves the
\* outstanding promise with that order's orderRef and txnId and leaves the
\* gateway idle: currentOrder, resolveCallback and rejectCallback are cleared.
C14_CompleteReturnsToIdle ==
    [][\A p \in OpIds :
          (Resolves(p) /\ currentOrder.txnId # Undefined)
              => /\ promise'[p].value.payment_ref = currentOrder.txnId
                 /\ promise'[p].value.order_id = currentOrder.orderRef
                 /\ GatewayIdle']_vars

\* C15: cancel() while the method list of the order is shown rejects the
\* outstanding promise with the failure 'User cancelled' and leaves the
\* gateway idle: currentOrder, resolveCallback and rejectCallback are
\* cleared, so that no txnId can be written to the cancelled order.
C15_CancelReturnsToIdle ==
    [][\A p \in OpIds :
          (Rejects(p) /\ modal.content /\ currentOrder.txnId = Undefined)
              => /\ promise'[p].value.success = False
                 /\ promise'[p].value.error = <<"User cancelled">>
                 /\ GatewayIdle']_vars

\* C16: while the processing view of the current order is shown (a method
\* was chosen, the timer has not fired), no step rejects the outstanding
\* promise: cancel() is refused and the promise stays pending.
C16_NoCancelInProcessing ==
    [][\A p \in OpIds :
          (modal.processing /\ rejectCallback = p /\ promise[p].state = "pending")
              => promise'[p].state # "rejected"]_vars

(***************************************************************************)
(* Claims about the amount, the order and the settlement request of a      *)
(* trade                                                                   *)
(***************************************************************************)
\* the step in which operation o calls its settlement endpoint
CallsSettlement(o) == trade'[o].settleCalls = trade[o].settleCalls + 1

\* C17: the settlement request of a trade goes to the endpoint of its
\* direction and carries the propertyId and tokenAmount the operation was
\* called with, and as payment_ref and order_id the values its checkout
\* promise was resolved with.
C17_SettlementCarriesResult ==
    \A o \in OpIds :
        trade[o].settleCalls > 0
            => LET req == trade[o].settleReq
                   v == promise[o].value
               IN  /\ promise[o].state = "resolved"
                   /\ req.endpoint = IF trade[o].kind = "buy"
                                     THEN <<"/api/trade/buy">>
                                     ELSE <<"/api/trade/sell">>
                   /\ req.method = "POST"
                   /\ req.body.property_id = trade[o].propertyId
                   /\ req.body.token_amount = trade[o].tokenAmount
                   /\ req.body.payment_ref = v.payment_ref
                   /\ req.body.order_id = v.order_id

\* C17 witness: a buy and a sell called with different arguments have both
\* sent their settlement request, each with a generated txnId
C17_Witness ==
    \E o1, o2 \in OpIds :
        /\ trade[o1].kind = "buy" /\ trade[o2].kind = "sell"
        /\ trade[o1].propertyId # trade[o2].propertyId
        /\ trade[o1].tokenAmount # trade[o2].tokenAmount
        /\ \A o \in {o1, o2} :
              /\ trade[o].settleCalls = 1
              /\ trade[o].settleReq.body.payment_ref # Undefined

\* C18: in every buy and sell the pricing fetch comes first, the checkout is
\* opened in the step in which the pricing response of that operation
\* arrives, with the amount computed from that response, and the settlement
\* endpoint is called only in the step in which that operation's checkout
\* promise is resolved with success.
C18_PricingCheckoutSettlement ==
    [][\A o \in OpIds :
          /\ CallsCheckout(o)
                => /\ trade[o].pc = "pricing"
                   /\ trade[o].pricingCalls = 1
                   /\ trade[o].settleCalls = 0
                   /\ trade'[o].property \in MoreQuotes
                   /\ currentOrder'.amount * trade'[o].property.total_tokens
                          = trade'[o].property.total_value * trade[o].tokenAmount
          /\ CallsSettlement(o)
                => /\ trade[o].pc = "checkout"
                   /\ trade[o].checkoutCalls = 1
                   /\ trade[o].settleCalls = 0
                   /\ Resolves(o)
                   /\ promise'[o].value.success = True]_vars

\* C18 witness: two operations that were quoted differently have both gone
\* from their pricing fetch through their checkout to their settlement call
C18_Witness ==
    \E o1, o2 \in OpIds :
        /\ o1 < o2
        /\ trade[o1].property # trade[o2].property
        /\ \A o \in {o1, o2} :
              /\ trade[o].pricingCalls = 1
              /\ trade[o].checkoutCalls = 1
              /\ trade[o].settleCalls = 1
              /\ trade[o].pc = "settling"

\* C19: the amount of the order in the slot is (total_value / total_tokens)
\* * tokenAmount for the quote and the tokenAmount of the operation that
\* opened it, whenever total_tokens > 0; for the quote 50,000,000 / 1000 and
\* tokenAmount 10 the unit price is 50,000 and the amount 500,000.
C19_AmountIsUnitPriceTimesCount ==
    currentOrder # NullObj
        => LET t == trade[resolveCallback]
               q == t.property
           IN  q.total_tokens > 0
                  => /\ currentOrder.amount * q.total_tokens
                            = q.total_value * t.tokenAmount
                     /\ (q.total_value = 50000000 /\ q.total_tokens = 1000
                            /\ t.tokenAmount = 10)
                          => /\ currentOrder.amount = 50000 * t.tokenAmount
                             /\ currentOrder.amount = 500000

\* C19 witness: a buy was quoted 50,000,000 / 1000 for 10 tokens and resolved,
\* and the order of a sell quoted the same stands in the slot at 500,000
C19_Witness ==
    \E o1, o2 \in OpIds :
        /\ trade[o1].kind = "buy" /\ trade[o2].kind = "sell"
        /\ \A o \in {o1, o2} :
              /\ trade[o].property = [total_value |-> 50000000, total_tokens |-> 1000]
              /\ trade[o].tokenAmount = 10
        /\ promise[o1].state = "resolved"
        /\ resolveCallback = o2
        /\ currentOrder.amount = 500000

\* C20: the order in the slot has the mode of the operation that opened it:
\* an order of buyTokens is not a sell order, has the ORDER_ prefix and the
\* payment methods; an order of sellTokens is a sell order, has the SELL_
\* prefix and the payout methods.
C20_OrderModeOfDirection ==
    currentOrder # NullObj
        => LET isSell == currentOrder.mode = <<"sell">>
           IN  IF trade[resolveCallback].kind = "sell"
               THEN /\ isSell
                    /\ currentOrder.orderRef[1] = "SELL_"
                    /\ Methods(isSell) = {"UPI Payout", "Bank Transfer"}
               ELSE /\ ~isSell
                    /\ currentOrder.orderRef[1] = "ORDER_"
                    /\ Methods(isSell) = {"UPI", "Card"}

\* C20 witness: a buy has opened and closed its order and the order of a sell
\* stands in the slot
C20_Witness ==
    \E o1, o2 \in OpIds :
        /\ trade[o1].kind = "buy" /\ trade[o1].checkoutCalls = 1
        /\ promise[o1].state # "pending"
        /\ trade[o2].kind = "sell" /\ trade[o2].checkoutCalls = 1
        /\ resolveCallback = o2
        /\ currentOrder.mode = <<"sell">>

(***************************************************************************)
(* Claims about the reports of a trade and about the session               *)
(***************************************************************************)
\* C21: a trade whose checkout promise was rejected has alerted the user,
\* and the alert carries the error of the rejection ('User cancelled'), in
\* buyTokens and in sellTokens alike.
C21_RejectionReported ==
    \A o \in OpIds :
        promise[o].state = "rejected"
            => /\ trade[o].alert # NoAlert
               /\ Len(trade[o].alert) > 1
               /\ trade[o].alert[2] = promise[o].value.error

\* the session counts as connected: a current user is set and the connect
\* button shows the connected state
Connected == TruthyObj(currentUser) /\ connectBtn.connected

\* C22: accessToken is present if and only if the session is connected.
C22_TokenIffConnected == Truthy(accessToken) <=> Connected

\* the entries of the persisted session that are present
Persisted == {k \in StorageKeys : localStorage[k] # Null}

\* C23: the three persisted entries are written and removed as a group: in
\* every state of the store, also the one a page life leaves behind when it
\* ends inside a save or a clear, all three are present or none is.
C23_EntriesAllOrNone == Persisted = {} \/ Persisted = StorageKeys

\* the step of the DOMContentLoaded handler
Startup == ~page.loaded /\ page'.loaded

\* C24: when a token and a wallet address are persisted, the DOMContentLoaded
\* handler sets accessToken and currentUser from them and shows the
\* connected state, and it issues no register and no login request: no
\* handleWalletConnection is started and the store is left as it is.
C24_RestoreWithoutBackend ==
    [][(/\ Startup
        /\ localStorage["accessToken"] # Null
        /\ localStorage["walletAddress"] # Null)
          => /\ accessToken' = localStorage["accessToken"]
             /\ currentUser'.wallet_address = localStorage["walletAddress"]
             /\ connectBtn'.connected
             /\ localStorage' = localStorage
             /\ \A f \in FlowIds : flow'[f] = NoFlow]_vars

\* C24 witness: a page life has started on the session an earlier page life
\* persisted and holds it with no handleWalletConnection started
C24_Witness ==
    /\ page.loaded
    /\ Persisted = StorageKeys
    /\ accessToken = TokenFor(TypedAddress)
    /\ accessToken = localStorage["accessToken"]
    /\ currentUser = [wallet_address |-> TypedAddress, name |-> Undefined,
                      email |-> Undefined]
    /\ connectBtn.connected
    /\ \A f \in FlowIds : flow[f] = NoFlow

\* C25: when one of the three persisted entries is absent at startup, the
\* DOMContentLoaded handler restores nothing: accessToken and currentUser
\* stay unset and the button stays disconnected.
C25_PartialStoreIsNoSession ==
    [][(Startup /\ Persisted # StorageKeys)
          => /\ accessToken' = Null
             /\ currentUser' = NullObj
             /\ ~connectBtn'.connected]_vars

\* the step in which handleWalletConnection f is called / returns
FlowStarts(f) == flow[f].pc = "idle" /\ flow'[f].pc = "register"
FlowEnds(f) == flow[f].pc \in {"register", "login"} /\ flow'[f].pc \in {"done", "failed"}

\* C26 as claimed: on a page without the wallet SDK every
\* handleWalletConnection ends with the wallet address and the demo flag
\* persisted and accessToken present.
C26_DemoConnectPopulates ==
    [][\A f \in FlowIds :
          FlowEnds(f)
              => /\ localStorage'["walletAddress"] = flow[f].walletAddress
                 /\ localStorage'["isDemoMode"] = <<"true">>
                 /\ Truthy(accessToken')]_vars

\* C26 as amended: on a page without the wallet SDK every accepted connect
\* calls handleWalletConnection in demo mode with the typed address or a
\* DEMO-prefixed one; when it ends with a readable response, the wallet
\* address and the demo flag are persisted, and accessToken is the token of
\* the login response when that carried one; when the request failed the
\* session and the store are left as they were.
C26_DemoConnectPopulatesOnToken ==
    [][\A f \in FlowIds :
          /\ FlowStarts(f)
                => /\ flow'[f].isDemoMode
                   /\ \/ flow'[f].walletAddress = TypedAddress
                      \/ flow'[f].walletAddress[1] = "DEMO"
          /\ (FlowEnds(f) /\ flow'[f].pc = "done")
                => /\ localStorage'["walletAddress"] = flow[f].walletAddress
                   /\ localStorage'["isDemoMode"] = <<"true">>
                   /\ Truthy(flow'[f].loginToken)
                         => /\ accessToken' = flow'[f].loginToken
                            /\ Truthy(accessToken')
          /\ (FlowEnds(f) /\ flow'[f].pc = "failed")
                => UNCHANGED <<accessToken, currentUser, localStorage>>]_vars

\* C26 witness: on a page without the wallet SDK a connect with a
\* synthesized DEMO address has ended with the three entries persisted and
\* the token of its login held
C26_Witness ==
    \E f \in FlowIds :
        /\ ~page.sdk
        /\ flow[f].pc = "done"
        /\ flow[f].isDemoMode
        /\ flow[f].walletAddress[1] = "DEMO"
        /\ accessToken = TokenFor(flow[f].walletAddress)
        /\ localStorage = StoredSession(flow[f].walletAddress, TRUE)

\* the step in which the peraWallet.connect() of invocation c settles
ConnectSettles(c) == conn[c].pc = "awaitConnect" /\ conn'[c].pc = "idle"

\* C27: when peraWallet.connect() fails with the message of a user
\* rejection, connectWallet shows the demo-mode confirm and alerts no
\* failure, and either starts a demo handleWalletConnection or starts
\* nothing; when it fails with any other error, connectWallet alerts the
\* failure and starts nothing; in both cases the invocation is over and does
\* not call peraWallet.connect() again.
C27_RejectionOffersDemo ==
    [][\A c \in ConnIds :
          ConnectSettles(c)
              => /\ conn'[c].error = <<"Connection request rejected by user">>
                       => /\ conn'[c].offered
                          /\ conn'[c].alert = NoAlert
                          /\ \/ flow' = flow
                             \/ \E f \in FlowIds : FlowStarts(f) /\ flow'[f].isDemoMode
                 /\ conn'[c].error \notin {Null, <<"Connection request rejected by user">>}
                       => /\ ~conn'[c].offered
                          /\ conn'[c].alert # NoAlert
                          /\ conn'[c].alert[2] = StringOf(conn'[c].error)
                          /\ flow' = flow
                 /\ \A e \in ConnIds : conn'[e].error # Null => conn'[e].pc = "idle"]_vars

\* C27 witness: a connect was rejected by the user, the demo fallback was
\* offered and taken, and no failure was alerted
C27_Witness ==
    \E c \in ConnIds, f \in FlowIds :
        /\ page.sdk
        /\ conn[c].pc = "idle"
        /\ conn[c].error = <<"Connection request rejected by user">>
        /\ conn[c].offered
        /\ conn[c].alert = NoAlert
        /\ flow[f].pc # "idle"
        /\ flow[f].isDemoMode

\* handleWalletConnection f runs for the provider's account
ProviderFlow(f) == flow[f].walletAddress = ProviderAccount /\ ~flow[f].isDemoMode

\* C28 as claimed: when a handleWalletConnection for the provider's account
\* ends, accessToken and the three persisted entries are those of the
\* provider's account, whatever session was restored before.
C28_ProviderSessionWins ==
    [][\A f \in FlowIds :
          (FlowEnds(f) /\ ProviderFlow(f))
              => /\ accessToken' = TokenFor(ProviderAccount)
                 /\ localStorage' = StoredSession(ProviderAccount, FALSE)]_vars

\* C28 as amended: accounts reported by reconnectSession() start a
\* handleWalletConnection for the provider's account, after the restore and
\* without touching the restored session; when that flow ends with a
\* readable response, the persisted wallet address and flag are those of
\* the provider's account, and accessToken, the persisted token and the user
\* are those of the login response when it carried a token; when a request
\* failed, the restored session stays.
C28_ProviderSessionWinsOnToken ==
    [][\A f \in FlowIds :
          /\ (page.reconnect = "pending" /\ page'.reconnect = "done" /\ FlowStarts(f))
                => /\ page.loaded
                   /\ flow'[f].walletAddress = ProviderAccount
                   /\ ~flow'[f].isDemoMode
                   /\ UNCHANGED <<accessToken, currentUser, localStorage>>
          /\ (FlowEnds(f) /\ ProviderFlow(f) /\ flow'[f].pc = "done")
                => /\ localStorage'["walletAddress"] = ProviderAccount
                   /\ localStorage'["isDemoMode"] = <<"false">>
                   /\ Truthy(flow'[f].loginToken)
                         => /\ accessToken' = flow'[f].loginToken
                            /\ localStorage'["accessToken"] = flow'[f].loginToken
                            /\ currentUser'.wallet_address = ProviderAccount
          /\ (FlowEnds(f) /\ ProviderFlow(f) /\ flow'[f].pc = "failed")
                => UNCHANGED <<accessToken, currentUser, localStorage>>]_vars

\* C28 witness: the provider reported a session at startup and the flow for
\* its account has ended with the provider's session in memory and in the
\* store
C28_Witness ==
    \E f \in FlowIds :
        /\ page.reconnect = "done"
        /\ flow[f].pc = "done"
        /\ ProviderFlow(f)
        /\ accessToken = TokenFor(ProviderAccount)
        /\ currentUser = ProfileFor(ProviderAccount)
        /\ localStorage = StoredSession(ProviderAccount, FALSE)
        /\ \A g \in FlowIds : g # f => flow[g] = NoFlow

\* C29: no step of buyTokens or sellTokens, whatever its outcome, changes
\* accessToken, currentUser or the three persisted entries.
C29_TradeLeavesSession ==
    [][trade' # trade => UNCHANGED <<accessToken, currentUser, localStorage>>]_vars

\* C29 witness: one trade was settled and another failed at settlement, and
\* the restored session is in memory and in the store as it was
C29_Witness ==
    \E o1, o2 \in OpIds :
        /\ trade[o1].end = "settled"
        /\ trade[o2].end \in {"settlement_error", "settlement_threw"}
        /\ accessToken = TokenFor(TypedAddress)
        /\ TruthyObj(currentUser)
        /\ localStorage = StoredSession(TypedAddress, TRUE)

\* the step in which a timer of process() fires
TimerFires == Len(timers') < Len(timers)

\* C30: when the timer of process() fires, the order in the slot has a
\* generated txnId, the success view is shown, and its promise is still
\* pending, waiting for complete(): Processing has ended in Approved and in
\* no failure.
C30_ProcessingEndsApproved ==
    [][TimerFires
          => /\ currentOrder'.txnId # Undefined
             /\ modal'.success /\ ~modal'.processing
             /\ promise'[rejectCallback].state = "pending"]_vars

(***************************************************************************)
(* Claims about retries, overlapping operations and failed responses       *)
(***************************************************************************)
\* C31: no buy or sell issues more than one pricing fetch, opens more than
\* one checkout or makes more than one settlement call, and no
\* handleWalletConnection makes more than one register or more than one
\* login call, whatever the requests and the checkout end in; an operation or
\* a flow that has ended takes no further step.
C31_NoAutomaticRetry ==
    /\ [](/\ \A o \in OpIds :
                /\ trade[o].pricingCalls <= 1
                /\ trade[o].checkoutCalls <= 1
                /\ trade[o].settleCalls <= 1
           /\ \A f \in FlowIds :
                /\ flow[f].registerCalls <= 1
                /\ flow[f].loginCalls <= 1)
    /\ [][/\ \A o \in OpIds : trade[o].pc = "done" => trade'[o] = trade[o]
          /\ \A f \in FlowIds :
                flow[f].pc \in {"done", "failed"} => flow'[f] = flow[f]]_vars

\* C31 witness: a sell has failed at its settlement call after one pricing
\* fetch, one checkout and one settlement call, and a flow has failed at its
\* login call after one register and one login call
C31_Witness ==
    /\ \E o \in OpIds :
          /\ trade[o].kind = "sell"
          /\ trade[o].end = "settlement_threw"
          /\ trade[o].pricingCalls = 1
          /\ trade[o].checkoutCalls = 1
          /\ trade[o].settleCalls = 1
    /\ \E f \in FlowIds :
          /\ flow[f].pc = "failed"
          /\ flow[f].registerCalls = 1
          /\ flow[f].loginCalls = 1

\* C32: every settlement request carries as bearer the accessToken the
\* operation read at its entry: a disconnect or a connect of another wallet
\* while the checkout is pending does not make the request go out without a
\* token or with the token of another identity.
C32_SettlementUnderEntryToken ==
    \A o \in OpIds :
        trade[o].settleCalls > 0
            => trade[o].settleReq.authorization = <<"Bearer", trade[o].entryToken>>

\* C33: a handleWalletConnection that was awaiting a response when
\* disconnectWallet() cleared the session writes nothing when it ends:
\* accessToken, currentUser and the three persisted entries stay as the
\* disconnect, or a connect started after it, left them.
C33_ClearedStaysCleared ==
    [][\A d \in DiscIds, f \in FlowIds :
          (disc[d].end = "cleared" /\ f \in disc[d].inFlight /\ FlowEnds(f))
              => UNCHANGED <<accessToken, currentUser, localStorage>>]_vars

\* C34: a timer of process() that fires while the method list of the order
\* in the slot is shown (no method was chosen for that order: the timer was
\* started for an earlier one) assigns that order no txnId and does not show
\* it as approved.
C34_StaleTimerSparesLaterOrder ==
    [][(TimerFires /\ modal.content)
          => /\ currentOrder'.txnId = currentOrder.txnId
             /\ ~modal'.success]_vars

\* C35: an order that has a txnId keeps it: a further timer of process()
\* generates no second one, so the txnId complete() hands to the caller is the
\* only one the order ever has.
C35_SingleTxnIdPerOrder ==
    [][(TimerFires /\ currentOrder.txnId # Undefined)
          => currentOrder'.txnId = currentOrder.txnId]_vars

\* C36: a checkout promise that is resolved or rejected stays as it is,
\* state and value, under every later complete() and cancel(), and its
\* operation makes no further settlement call; no operation makes more than
\* one settlement call.
C36_SettlesAtMostOnce ==
    /\ [][\A p \in OpIds :
             promise[p].state \in {"resolved", "rejected"}
                 => /\ promise'[p] = promise[p]
                    /\ trade'[p].settleCalls = trade[p].settleCalls
                    /\ trade'[p].settleReq = trade[p].settleReq]_vars
    /\ [](\A o \in OpIds : trade[o].settleCalls <= 1)

\* C36 witness: cancel() has rejected the promise of one operation and
\* complete() has then resolved that of another, which made its one
\* settlement call; the modal is closed and both callbacks stay bound to the
\* resolved promise, so that every further complete() or cancel() meets a
\* settled promise
C36_Witness ==
    \E o1, o2 \in OpIds :
        /\ promise[o1].state = "rejected" /\ trade[o1].settleCalls = 0
        /\ promise[o2].state = "resolved" /\ trade[o2].settleCalls = 1
        /\ resolveCallback = o2 /\ rejectCallback = o2
        /\ currentOrder.txnId # Undefined
        /\ modal.display = "none"

\* C37: a handleWalletConnection that ends on a response without
\* access_token (the login response, or the register response it adopts)
\* creates no session: the three persisted entries stay as they were, the
\* button is not switched to connected, and the store never holds a token
\* entry that a later page load would restore as a session.
C37_NoTokenNoSession ==
    /\ [][\A f \in FlowIds :
             (FlowEnds(f) /\ flow'[f].pc = "done" /\ ~Truthy(accessToken'))
                 => /\ localStorage' = localStorage
                    /\ connectBtn' = connectBtn]_vars
    /\ [](localStorage["accessToken"] # StringOf(Undefined))

\* C38: a handleWalletConnection whose register or login request throws
\* ends with the failure alert, and none of its steps (its start, its
\* passage from the register to the login call, its end in the catch block)
\* changes accessToken, currentUser, the three persisted entries or the
\* button: it leaves the session it found.
C38_FailedFlowLeavesSession ==
    [][\A f \in FlowIds :
          /\ (FlowStarts(f) \/ (flow[f].pc = "register" /\ flow'[f].pc = "login"))
                => UNCHANGED <<accessToken, currentUser, localStorage, connectBtn>>
          /\ (FlowEnds(f) /\ flow'[f].pc = "failed")
                => /\ flow'[f].alert = <<"Failed to complete wallet connection">>
                   /\ UNCHANGED <<accessToken, currentUser, localStorage, connectBtn>>]_vars

\* C38 witness: on a page that restored a stored session, one flow has
\* failed at its register request and another at its login request, and the
\* restored session is in memory and in the store as it was
C38_Witness ==
    \E f, g \in FlowIds :
        /\ flow[f].pc = "failed" /\ flow[f].loginCalls = 0
        /\ flow[g].pc = "failed" /\ flow[g].loginCalls = 1
        /\ flow[f].alert = <<"Failed to complete wallet connection">>
        /\ flow[g].alert = <<"Failed to complete wallet connection">>
        /\ accessToken = TokenFor(TypedAddress)
        /\ currentUser.wallet_address = TypedAddress
        /\ localStorage = StoredSession(TypedAddress, TRUE)
        /\ connectBtn.connected

\* every handleWalletConnection slot was used, for wallets that differ,
\* every flow has ended, and no disconnectWallet() was called
AllFlowsEnded ==
    /\ \A f \in FlowIds : flow[f].pc \in {"done", "failed"}
    /\ \A f, g \in FlowIds : f # g => flow[f].walletAddress # flow[g].walletAddress
    /\ \A d \in DiscIds : disc[d].pc = "idle"

\* C39: when the flows for different wallets have all ended, the persisted
\* token is the one the backend issues for the persisted wallet address, the
\* address and the demo flag are those of one flow that ended well (or the
\* restored ones when none did), and accessToken equals the persisted token.
C39_OverlappingFlowsConsistent ==
    AllFlowsEnded
        => /\ accessToken = localStorage["accessToken"]
           /\ \/ localStorage = EmptyStorage
              \/ /\ localStorage \in StoredSessions
                 /\ \A f \in FlowIds : flow[f].pc = "failed"
              \/ \E f \in FlowIds :
                    /\ flow[f].pc = "done"
                    /\ localStorage = StoredSession(flow[f].walletAddress,
                                                     flow[f].isDemoMode)

====
